---------------------------- MODULE Spec2Model ----------------------------
(***************************************************************************)
(* Manual-classification frontend (classificacao-frontend): the session    *)
(* store, the API gateway client (apiRequest), the Filter Selector         *)
(* (FilterBar) and the two review workflows (ClassificarPage and           *)
(* VerificarPage), as one event-driven state machine.  One action is one   *)
(* task of the browser's event loop: a user event or the continuation of   *)
(* an awaited request, together with the renders and effects it causes.    *)
(***************************************************************************)
EXTENDS Integers, Sequences, FiniteSets, TLC

\* ------------------------------------------------------------------ bounds
MaxInFlight == 3      \* requests awaiting a response at one time
MaxMilli == 1000      \* the largest similarity score, in thousandths
MaxUserPending == 2   \* the user acts only while fewer requests than this are pending

\* ------------------------------------------------------------ JS values
Null == "<null>"                         \* null / undefined of a string slot
Truthy(s) == s # Null /\ s # ""          \* JS truthiness of a string-or-null
OrElse(s, d) == IF Truthy(s) THEN s ELSE d        \* s || d

\* ------------------------------------------------------------ data model
Usuario(d, adm) == [nil |-> FALSE, disciplina |-> d, is_admin |-> adm]
NullUsuario == [nil |-> TRUE, disciplina |-> Null, is_admin |-> FALSE]

\* profiles the server hands out on /login and /cadastro
Usuarios ==
  { Usuario("Exatas", FALSE),       \* area stored directly
    Usuario("Matematica", FALSE),   \* legacy: a discipline is stored
    Usuario("", FALSE),             \* no area assigned
    Usuario("Exatas", TRUE) }       \* admin

Tokens == {"t1"}

\* area -> disciplines mappings /disciplinas may answer with; a mapping is
\* the sequence of its entries in the object's iteration order
\* "Exatas" is an area and also a discipline of a later area; "Matematica"
\* is a discipline of both areas
MapAreas == << <<"Exatas", <<"Matematica", "Fisica">> >>,
               <<"Humanas", <<"Matematica", "Exatas">> >> >>
MapVazio == << >>
Mappings == {MapAreas, MapVazio}

Keys(m) == [i \in 1..Len(m) |-> m[i][1]]                 \* Object.keys
HasKey(m, k) == \E i \in 1..Len(m) : m[i][1] = k
Lookup(m, k) == m[CHOOSE i \in 1..Len(m) : m[i][1] = k][2]
Includes(s, x) == \E i \in 1..Len(s) : s[i] = x          \* Array.includes
SeqSet(s) == {s[i] : i \in 1..Len(s)}

\* questions (0 = none held) and the module candidates offered with each
Questoes == {1, 2}
ModulosPossiveis(q) == IF q = 1 THEN <<1, 2>> ELSE IF q = 2 THEN <<2, 3>> ELSE << >>
Modulo(i) == [id |-> i, modulo |-> <<"modulo", i>>,
              habilidade_descricao |-> <<"hab", i>>, descricao |-> <<"desc", i>>]
NullModulo == [id |-> 0, modulo |-> << >>, habilidade_descricao |-> << >>,
               descricao |-> << >>]

Observacoes == {"", "obs"}

\* ---------------------------------------------------------- session store
\* localStorage items 'token' and 'usuario'
VARIABLES token, usuarioItem

JsonStringify(u) == [has |-> TRUE, json |-> u]
NoItem == [has |-> FALSE, json |-> NullUsuario]
JsonParse(item) == item.json

GetToken(tok) == tok
SetAuthToken(tok, newTok) == newTok
SetAuthUsuario(item, u) == JsonStringify(u)
ClearToken(tok) == Null
ClearUsuario(item) == NoItem
GetUsuario(item) == IF ~item.has THEN NullUsuario ELSE JsonParse(item)
IsAuthenticated(tok) == Truthy(GetToken(tok))

\* ------------------------------------------------------------ API gateway
NoAuth == "<none>"
Bearer(tok) == <<"Bearer", tok>>
\* faulty variant: the header is built whether or not a token is stored
AuthHeaderAlways(tok) == Bearer(tok)
AuthHeader(tok) == IF Truthy(tok) THEN Bearer(tok) ELSE <<NoAuth>>

StatusOk == 200
StatusUnauthorized == 401
StatusError == 500
Statuses == {StatusOk, StatusUnauthorized, StatusError}
Details == {Null, "detalhe"}
ErroGenerico == "Erro na requisicao"

NoQuery == [area |-> Null, disciplina_id |-> Null]
NoBody == [questao_id |-> 0, habilidade_modulo_id |-> 0,
           modulo_escolhido |-> << >>, classificacao_trieduc |-> << >>,
           descricao_assunto |-> << >>, tipo_acao |-> Null, observacao |-> Null,
           disciplina |-> Null]
\* what an awaiting caller holds while its request is in flight: which handler
\* awaits, the filter values and the user its closure captured, the decision
\* it submitted, and whether its component is still mounted
Cont(who, a, d, usr) ==
  [who |-> who, area |-> a, disc |-> d, usr |-> usr, body |-> NoBody, live |-> TRUE]

\* the request apiRequest sends: the token is read when the call is made
ApiRequest(tok, endpoint, query, body) ==
  [endpoint |-> endpoint, query |-> query, auth |-> AuthHeader(GetToken(tok)),
   body |-> body]

\* a call of apiRequest: the request on the wire and the caller awaiting it
Call(req, k) == [req |-> req, k |-> k]
Wire(calls) == [i \in 1..Len(calls) |-> calls[i].req]
Awaiting(calls) == [i \in 1..Len(calls) |-> calls[i].k]

IsOk(status) == status = StatusOk
\* faulty variant: the structured detail of the response is dropped
ErrorMessageGenerico(detail) == ErroGenerico
\* the thrown error's message for a non-success response
ErrorMessage(detail) == OrElse(detail, ErroGenerico)

\* --------------------------------------------------------- component state
VARIABLES
  route,        \* the page shown: "/login", "/cadastro", "/classificar", "/verificar"
  navPending,   \* window.location.href = '/login' was assigned, the document not yet replaced
  authorized,   \* AppLayout.authorized
  sbUsuario,    \* Sidebar.usuario
  fb,           \* FilterBar: area, disciplinaId, areasMapping, and the usuario of its last render
  pg,           \* ClassificarPage / VerificarPage state
  form,         \* LoginPage / CadastroPage state
  net,          \* the callers awaiting a response, in the order of their requests
  sent,         \* the requests the last task put on the wire, in order
  lastEvt       \* the last task: handler, response status, alert shown

\* history of the mounted page's fetches: the outcome of the fetch-next
\* request it issued last (st is "none", "pending", "ok" or "fail"), and the
\* filter values of the request whose response set the question it holds;
\* st is "off" in the behaviours that keep no history
VARIABLES hist

vars == <<token, usuarioItem, route, navPending, authorized, sbUsuario, fb, pg,
          form, net, sent, lastEvt, hist>>

Protected == {"/classificar", "/verificar"}
Routes == {"/login", "/cadastro"} \cup Protected

ProximaEndpoint(r) == IF r = "/verificar" THEN "/proxima-low-match" ELSE "/proxima"
MsgVazioClassificar == "Nenhuma questao encontrada com esses filtros."
MsgVazioVerificar == "Nenhuma questao de baixa similaridade pendente."
MsgVazio(endpoint) ==
  IF endpoint = "/proxima-low-match" THEN MsgVazioVerificar ELSE MsgVazioClassificar

\* detail: the structured error detail of the response the task received
EvtResp(op, status, alert, detail) ==
  [op |-> op, status |-> status, alert |-> alert, detail |-> detail]
Evt(op, status, alert) == EvtResp(op, status, alert, Null)

\* ---------------------------------------------------------------- FilterBar
FilterBarInit(usr) ==
  [mounted |-> TRUE, area |-> "", disciplinaId |-> "", areasMapping |-> << >>,
   usuario |-> usr]
FilterBarOff ==
  [mounted |-> FALSE, area |-> "", disciplinaId |-> "", areasMapping |-> << >>,
   usuario |-> NullUsuario]

RECURSIVE FirstAreaWith(_, _, _)
FirstAreaWith(areas, v, i) ==
  IF i > Len(areas) THEN Null
  ELSE IF Includes(areas[i][2], v) THEN areas[i][1]
  ELSE FirstAreaWith(areas, v, i + 1)

\* faulty variant: the legacy scan runs before the direct match
ResolveAreaScanFirst(areas, usr) ==
  IF ~Truthy(usr.disciplina) THEN Null
  ELSE IF FirstAreaWith(areas, usr.disciplina, 1) # Null
  THEN FirstAreaWith(areas, usr.disciplina, 1)
  ELSE IF HasKey(areas, usr.disciplina) THEN usr.disciplina
  ELSE Null

\* the area loadFilters passes to setArea, Null when it calls setArea not at all
ResolveArea(areas, usr) ==
  IF ~Truthy(usr.disciplina) THEN Null
  ELSE IF HasKey(areas, usr.disciplina) THEN usr.disciplina
  ELSE FirstAreaWith(areas, usr.disciplina, 1)

DisciplinasDaArea(f) ==
  IF Truthy(f.area) /\ HasKey(f.areasMapping, f.area)
  THEN Lookup(f.areasMapping, f.area) ELSE << >>

\* faulty variant: the area list is not restricted
AreaFilterNone(f, a) == TRUE
AreaFilter(f, a) == ~Truthy(f.usuario.disciplina) \/ f.usuario.is_admin \/ a = f.area
AreaOptions(f) == SelectSeq(Keys(f.areasMapping), LAMBDA a : AreaFilter(f, a))
\* faulty variant: every discipline of the mapping is offered
DisciplinaOptionsAll(f) ==
  IF Len(f.areasMapping) = 0 THEN << >>
  ELSE f.areasMapping[1][2] \o f.areasMapping[Len(f.areasMapping)][2]
DisciplinaOptions(f) == DisciplinasDaArea(f)

\* faulty variant: the new area keeps the discipline selected under the old one
AreaOnChangeKeepDisc(f, val) ==
  IF ~Truthy(f.usuario.disciplina) \/ f.usuario.is_admin
  THEN [f EXCEPT !.area = val]
  ELSE f

\* faulty variant: the selection of an admin with an area is ignored
AreaOnChangeSemAdmin(f, val) ==
  IF ~Truthy(f.usuario.disciplina)
  THEN [f EXCEPT !.area = val, !.disciplinaId = ""]
  ELSE f

\* the area Dropdown's onChange
AreaOnChange(f, val) ==
  IF ~Truthy(f.usuario.disciplina) \/ f.usuario.is_admin
  THEN [f EXCEPT !.area = val, !.disciplinaId = ""]
  ELSE f
\* the disciplina Dropdown's onChange
DisciplinaOnChange(f, val) == [f EXCEPT !.disciplinaId = val]

\* ------------------------------------------------- review workflow pages
PageInit(item) ==
  [questao |-> 0, loading |-> TRUE, error |-> "",
   area |-> OrElse(GetUsuario(item).disciplina, ""), disciplinaFiltro |-> "",
   saving |-> FALSE, observacao |-> "", moduloSelecionado |-> NullModulo,
   isCorrecting |-> FALSE]
PageOff ==
  [questao |-> 0, loading |-> FALSE, error |-> "", area |-> "",
   disciplinaFiltro |-> "", saving |-> FALSE, observacao |-> "",
   moduloSelecionado |-> NullModulo, isCorrecting |-> FALSE]

\* faulty variant: empty filter values are sent as empty parameters
ProximaQueryKeepEmpty(a, d) == [area |-> a, disciplina_id |-> d]
ProximaQuery(a, d) ==
  [area |-> IF Truthy(a) THEN a ELSE Null,
   disciplina_id |-> IF Truthy(d) THEN d ELSE Null]

\* faulty variant: the selected module survives the reset
FetchProximaResetKeepModulo(p) ==
  [p EXCEPT !.loading = TRUE, !.error = "", !.questao = 0,
            !.observacao = "", !.isCorrecting = FALSE]
\* faulty variant: the observation survives the reset
FetchProximaResetKeepObs(p) ==
  [p EXCEPT !.loading = TRUE, !.error = "", !.questao = 0,
            !.moduloSelecionado = NullModulo, !.isCorrecting = FALSE]
\* fetchProxima up to its await: the state it resets ...
FetchProximaReset(p) ==
  [p EXCEPT !.loading = TRUE, !.error = "", !.questao = 0,
            !.moduloSelecionado = NullModulo, !.observacao = "",
            !.isCorrecting = FALSE]
\* ... and the request it issues
FetchProximaReq(tok, endpoint, a, d) ==
  Call(ApiRequest(tok, endpoint, ProximaQuery(a, d), NoBody),
       Cont("fetchProxima", a, d, NullUsuario))

\* a step of the cascade: the page state it leaves and the requests it issued
Out(p, reqs) == [pg |-> p, reqs |-> reqs]

FetchProxima(p, tok, endpoint, a, d) ==
  Out(FetchProximaReset(p), <<FetchProximaReq(tok, endpoint, a, d)>>)

\* the page's onFilterChange callback and, when a value changed, its effect
OnFilterChange(p, tok, endpoint, a, d) ==
  LET p1 == [p EXCEPT !.area = a, !.disciplinaFiltro = d]
  IN IF a # p.area \/ d # p.disciplinaFiltro
     THEN FetchProxima(p1, tok, endpoint, a, d)
     ELSE Out(p1, << >>)

\* FilterBar's notify effect after its state went from f to f2
NotifyEffect(p, tok, endpoint, f, f2) ==
  IF f2.area # f.area \/ f2.disciplinaId # f.disciplinaId
  THEN OnFilterChange(p, tok, endpoint, f2.area, f2.disciplinaId)
  ELSE Out(p, << >>)

\* the content below the FilterBar that is rendered
ShowsEmpty == authorized /\ route \in Protected /\ ~pg.loading /\ Truthy(pg.error)
ShowsQuestao ==
  authorized /\ route \in Protected /\ ~pg.loading /\ ~Truthy(pg.error) /\ pg.questao # 0
\* faulty variant: the module list is rendered in the reviewing sub-mode too
ShowsModulosSempre == ShowsQuestao
ShowsModulos == ShowsQuestao /\ (route = "/classificar" \/ pg.isCorrecting)
ShowsReviewing == ShowsQuestao /\ route = "/verificar" /\ ~pg.isCorrecting

\* ------------------------------------------------------ mounting a route
FormInit == [loading |-> FALSE, error |-> "", disciplina |-> "", areasMapping |-> << >>]

View(r, auth, sb, f, p, fm, reqs) ==
  [route |-> r, authorized |-> auth, sbUsuario |-> sb, fb |-> f, pg |-> p,
   form |-> fm, reqs |-> reqs]

\* the components awaiting were unmounted: their continuations still run,
\* reach the session store and send the requests they send, but no state of
\* a component; the decision they hold is of no effect any more
Kill(ks) == [i \in 1..Len(ks) |-> [ks[i] EXCEPT !.live = FALSE, !.body = NoBody]]
KillCalls(calls) == [i \in 1..Len(calls) |-> [calls[i] EXCEPT !.k.live = FALSE]]

LoadFiltersReq(tok, usr) ==
  Call(ApiRequest(tok, "/disciplinas", NoQuery, NoBody),
       Cont("loadFilters", Null, Null, usr))
FetchFiltersReq(tok) ==
  Call(ApiRequest(tok, "/disciplinas", NoQuery, NoBody),
       Cont("fetchFilters", Null, Null, NullUsuario))

\* faulty variant: the check lets everyone in
AppLayoutCheckAlways(tok) == TRUE
\* AppLayout's mount check
AppLayoutCheck(tok) == IsAuthenticated(tok)

\* first render and effects of ClassificarPage / VerificarPage inside
\* AppLayout: AppLayout's check, the page's fetch effect, and, once
\* authorized, Sidebar and FilterBar with FilterBar's two effects
MountProtected(r, tok, item) ==
  LET ep == ProximaEndpoint(r)
      p0 == PageInit(item)
      o1 == FetchProxima(p0, tok, ep, p0.area, p0.disciplinaFiltro)
      usr == GetUsuario(item)
      f0 == FilterBarInit(usr)
      o2 == OnFilterChange(o1.pg, tok, ep, f0.area, f0.disciplinaId)
  IN IF AppLayoutCheck(tok)
     THEN View(r, TRUE, usr, f0, o2.pg, FormInit,
               o1.reqs \o <<LoadFiltersReq(tok, usr)>> \o o2.reqs)
     ELSE View("/login", FALSE, NullUsuario, FilterBarOff, PageOff, FormInit,
               KillCalls(o1.reqs))

Mount(r, tok, item) ==
  IF r \in Protected THEN MountProtected(r, tok, item)
  ELSE IF r = "/cadastro"
  THEN View(r, FALSE, NullUsuario, FilterBarOff, PageOff, FormInit,
            <<FetchFiltersReq(tok)>>)
  ELSE View(r, FALSE, NullUsuario, FilterBarOff, PageOff, FormInit, << >>)

\* the variables of the mounted components, after v was mounted
Show(v) ==
  /\ route' = v.route
  /\ authorized' = v.authorized
  /\ sbUsuario' = v.sbUsuario
  /\ fb' = v.fb
  /\ pg' = v.pg
  /\ form' = v.form

\* -------------------------------------------------------------- MatchBadge
\* what MatchBadge rendered for the similarity score it was given last
VARIABLES badge

\* a score is a decimal with three places, held in thousandths; NoScore is
\* null / undefined
NoScore == -1
Scores == 0..MaxMilli
PctHigh == 80
PctMid == 60
ColorHigh == "#166534"
ColorMid == "#854d0e"
ColorLow == "#991b1b"

\* the scores at a half percent whose double product score * 100 falls just
\* below the half (0.145 * 100 is 14.499999999999998), so that Math.round
\* rounds them down
HalfBelow == {145, 285, 565, 575}
\* Math.round(score * 100): the nearest integer, a half rounded up
RoundPct(score) ==
  IF score \in HalfBelow THEN score \div 10 ELSE (score + 5) \div 10

NoBadge == [score |-> NoScore, shown |-> FALSE, pct |-> 0, color |-> ""]
\* faulty variant: the tier is decided on the score before rounding
MatchBadgeSemRound(score) ==
  IF score = NoScore THEN NoBadge
  ELSE [score |-> score, shown |-> TRUE, pct |-> RoundPct(score),
        color |-> IF score >= PctHigh * 10 THEN ColorHigh
                  ELSE IF score >= PctMid * 10 THEN ColorMid ELSE ColorLow]
MatchBadge(score) ==
  IF score = NoScore THEN NoBadge
  ELSE LET pct == RoundPct(score)
       IN [score |-> score, shown |-> TRUE, pct |-> pct,
           color |-> IF pct >= PctHigh THEN ColorHigh
                     ELSE IF pct >= PctMid THEN ColorMid ELSE ColorLow]

\* the requests a task issued are appended to those in flight; no handler
\* reads or writes what MatchBadge shows
IssueNet(base, calls) ==
  /\ net' = base \o Awaiting(calls)
  /\ sent' = Wire(calls)
  /\ Len(net') <= MaxInFlight
  /\ UNCHANGED badge

NoHist == [st |-> "none", q |-> 0, msg |-> "", area |-> Null, disc |-> Null]
HistOff == [NoHist EXCEPT !.st = "off"]
HistPending == [NoHist EXCEPT !.st = "pending"]
IssuesFetch(calls) ==
  \E k \in 1..Len(calls) : calls[k].k.who = "fetchProxima" /\ calls[k].k.live
\* the history after a task that issued calls and mounted v or kept the page
HistAfter(h, calls, page) ==
  IF h.st = "off" THEN h
  ELSE IF IssuesFetch(calls) THEN HistPending
  ELSE IF ~page THEN NoHist
  ELSE h

Issue(base, calls) ==
  /\ IssueNet(base, calls)
  /\ hist' = HistAfter(hist, calls, authorized')

\* page and FilterBar state after a task; a render of the page renders
\* FilterBar again, which reads the stored usuario again
Render(pgN, fbN) ==
  /\ pg' = pgN
  /\ fb' = IF fbN.mounted /\ (pgN # pg \/ fbN # fb)
           THEN [fbN EXCEPT !.usuario = GetUsuario(usuarioItem')]
           ELSE fbN

Sessions == {<<Null, NoItem>>} \cup {<<"t1", JsonStringify(u)>> : u \in Usuarios}

\* a document load of any route, with any session in the store
Boot(h0) ==
  \E r \in Routes, s \in Sessions :
    LET v == Mount(r, s[1], s[2])
    IN /\ token = s[1]
       /\ usuarioItem = s[2]
       /\ navPending = FALSE
       /\ route = v.route
       /\ authorized = v.authorized
       /\ sbUsuario = v.sbUsuario
       /\ fb = v.fb
       /\ pg = v.pg
       /\ form = v.form
       /\ net = Awaiting(v.reqs)
       /\ sent = Wire(v.reqs)
       /\ lastEvt = Evt("load", 0, Null)
       /\ hist = HistAfter(h0, v.reqs, v.authorized)
       /\ badge = NoBadge

Init == Boot(HistOff)

\* client-side navigation (router.push, Link): the current page is unmounted
RouterPush(r, tok, item) ==
  LET v == Mount(r, tok, item)
  IN /\ Show(v)
     /\ Issue(Kill(net), v.reqs)

Remove(s, i) == SubSeq(s, 1, i - 1) \o SubSeq(s, i + 1, Len(s))

\* the session store and the pending navigation after apiRequest saw the status
\* faulty variant: any failure removes the token
TokenAfterAnyFailure(status, tok) ==
  IF status # StatusOk THEN ClearToken(tok) ELSE tok
\* faulty variant: a 401 leaves the token in the store
TokenAfterKept(status, tok) == tok
TokenAfter(status, tok) ==
  IF status = StatusUnauthorized THEN ClearToken(tok) ELSE tok
\* faulty variant: a 401 leaves the user profile in the store
UsuarioAfterKept(status, item) == item
UsuarioAfter(status, item) ==
  IF status = StatusUnauthorized THEN ClearUsuario(item) ELSE item
NavAfter(status, pending) ==
  IF status = StatusUnauthorized THEN TRUE ELSE pending

\* the failures a server can answer with
Failures == {[status |-> s, detail |-> d] : s \in Statuses \ {StatusOk}, d \in Details}

\* ------------------------------------------------------ submit handlers
\* the /salvar body with a module reference (classificacao_nova, correcao)
SalvarBody(p, tipo) ==
  [NoBody EXCEPT !.questao_id = p.questao,
                 !.habilidade_modulo_id = p.moduloSelecionado.id,
                 !.modulo_escolhido = p.moduloSelecionado.modulo,
                 !.classificacao_trieduc = p.moduloSelecionado.habilidade_descricao,
                 !.descricao_assunto = p.moduloSelecionado.descricao,
                 !.tipo_acao = tipo,
                 !.observacao = p.observacao]
\* faulty variant: the confirmation carries the selected module
ConfirmarBodyComModulo(p) == SalvarBody(p, "confirmacao")
\* the /salvar body of a confirmation
ConfirmarBody(p) ==
  [NoBody EXCEPT !.questao_id = p.questao, !.tipo_acao = "confirmacao",
                 !.observacao = p.observacao]

\* the closure of a submit handler: the page's filter pair and the decision
\* built from the page state of the render the handler belongs to
SalvarCont(who, p) ==
  [Cont(who, p.area, p.disciplinaFiltro, NullUsuario) EXCEPT
     !.body = IF who = "handleConfirmar" THEN ConfirmarBody(p)
              ELSE SalvarBody(p, IF who = "handleSalvar" THEN "classificacao_nova"
                                 ELSE "correcao")]

\* faulty variant: the early return is missing
ModuloGuardMissing(p) == TRUE
\* `if (!moduloSelecionado) return;` lets the handler go on
ModuloGuard(p) == p.moduloSelecionado # NullModulo

\* a handler up to its await.  Reading questao.id of no question throws
\* inside the try: saving is set and cleared again and nothing is sent.
HandleSalvar(p, tok) ==
  IF ~ModuloGuard(p) \/ p.questao = 0 THEN Out(p, << >>)
  ELSE Out([p EXCEPT !.saving = TRUE],
           <<Call(ApiRequest(tok, "/salvar", NoQuery, SalvarBody(p, "classificacao_nova")),
                  SalvarCont("handleSalvar", p))>>)

HandleSalvarCorrecao(p, tok) ==
  IF ~ModuloGuard(p) \/ p.questao = 0 THEN Out(p, << >>)
  ELSE Out([p EXCEPT !.saving = TRUE],
           <<Call(ApiRequest(tok, "/salvar", NoQuery, SalvarBody(p, "correcao")),
                  SalvarCont("handleSalvarCorrecao", p))>>)

\* faulty variant: the confirmation is sent without entering saving
HandleConfirmarNoSaving(p, tok) ==
  IF p.questao = 0 THEN Out(p, << >>)
  ELSE Out(p, <<Call(ApiRequest(tok, "/salvar", NoQuery, ConfirmarBody(p)),
                     SalvarCont("handleConfirmar", p))>>)
HandleConfirmar(p, tok) ==
  IF p.questao = 0 THEN Out(p, << >>)
  ELSE Out([p EXCEPT !.saving = TRUE],
           <<Call(ApiRequest(tok, "/salvar", NoQuery, ConfirmarBody(p)),
                  SalvarCont("handleConfirmar", p))>>)

\* faulty variant: the save buttons stay enabled while saving
SalvarDisabledNoSaving == ~ModuloGuard(pg)
\* the disabled attribute of the buttons
SalvarDisabled == ~ModuloGuard(pg) \/ pg.saving
ConfirmarDisabled == pg.saving

\* a user event: the user acts on a document that is not being replaced
UserActs == ~navPending /\ Len(net) < MaxUserPending
Quiet == UserActs /\ UNCHANGED <<token, usuarioItem, navPending>>
SamePage == UNCHANGED <<route, authorized, sbUsuario, form>>

\* --------------------------------------------------- page: user events
SelectModulo(m) ==
  /\ ShowsModulos
  /\ m \in SeqSet(ModulosPossiveis(pg.questao))
  /\ Quiet /\ SamePage
  /\ Render([pg EXCEPT !.moduloSelecionado = Modulo(m)], fb)
  /\ Issue(net, << >>)
  /\ lastEvt' = Evt("selectModulo", 0, Null)

SetObservacao(t) ==
  /\ ShowsQuestao
  /\ t # pg.observacao
  /\ Quiet /\ SamePage
  /\ Render([pg EXCEPT !.observacao = t], fb)
  /\ Issue(net, << >>)
  /\ lastEvt' = Evt("setObservacao", 0, Null)

\* the Pular button
Pular ==
  /\ (ShowsQuestao /\ route = "/classificar") \/ ShowsReviewing
  /\ Quiet /\ SamePage
  /\ LET o == FetchProxima(pg, token, ProximaEndpoint(route), pg.area,
                           pg.disciplinaFiltro)
     IN Render(o.pg, fb) /\ Issue(net, o.reqs)
  /\ lastEvt' = Evt("pular", 0, Null)

\* the Tentar Novamente button of the empty state
TentarNovamente ==
  /\ ShowsEmpty
  /\ Quiet /\ SamePage
  /\ LET o == FetchProxima(pg, token, ProximaEndpoint(route), pg.area,
                           pg.disciplinaFiltro)
     IN Render(o.pg, fb) /\ Issue(net, o.reqs)
  /\ lastEvt' = Evt("tentarNovamente", 0, Null)

ClickSalvar ==
  /\ ShowsQuestao /\ route = "/classificar"
  /\ ~SalvarDisabled
  /\ Quiet /\ SamePage
  /\ LET o == HandleSalvar(pg, token)
     IN Render(o.pg, fb) /\ Issue(net, o.reqs)
  /\ lastEvt' = Evt("handleSalvar", 0, Null)

ClickConfirmar ==
  /\ ShowsReviewing
  /\ ~ConfirmarDisabled
  /\ Quiet /\ SamePage
  /\ LET o == HandleConfirmar(pg, token)
     IN Render(o.pg, fb) /\ Issue(net, o.reqs)
  /\ lastEvt' = Evt("handleConfirmar", 0, Null)

ClickSalvarCorrecao ==
  /\ ShowsModulos /\ route = "/verificar"
  /\ ~SalvarDisabled
  /\ Quiet /\ SamePage
  /\ LET o == HandleSalvarCorrecao(pg, token)
     IN Render(o.pg, fb) /\ Issue(net, o.reqs)
  /\ lastEvt' = Evt("handleSalvarCorrecao", 0, Null)

\* "Nao, quero corrigir"
QueroCorrigir ==
  /\ ShowsReviewing
  /\ Quiet /\ SamePage
  /\ Render([pg EXCEPT !.isCorrecting = TRUE], fb)
  /\ Issue(net, << >>)
  /\ lastEvt' = Evt("queroCorrigir", 0, Null)

\* faulty variant: Voltar discards the observation
VoltarLimpaObservacao ==
  /\ ShowsModulos /\ route = "/verificar"
  /\ Quiet /\ SamePage
  /\ Render([pg EXCEPT !.isCorrecting = FALSE, !.observacao = ""], fb)
  /\ Issue(net, << >>)
  /\ lastEvt' = Evt("voltar", 0, Null)

Voltar ==
  /\ ShowsModulos /\ route = "/verificar"
  /\ Quiet /\ SamePage
  /\ Render([pg EXCEPT !.isCorrecting = FALSE], fb)
  /\ Issue(net, << >>)
  /\ lastEvt' = Evt("voltar", 0, Null)

\* ------------------------------------------------ FilterBar: user events
SelectArea(val) ==
  /\ authorized /\ fb.mounted
  /\ val \in SeqSet(AreaOptions(fb))
  /\ Quiet /\ SamePage
  /\ LET f2 == AreaOnChange(fb, val)
         o == NotifyEffect(pg, token, ProximaEndpoint(route), fb, f2)
     IN Render(o.pg, f2) /\ Issue(net, o.reqs)
  /\ lastEvt' = Evt("selectArea", 0, Null)

SelectDisciplina(val) ==
  /\ authorized /\ fb.mounted
  /\ val \in SeqSet(DisciplinaOptions(fb))
  /\ Quiet /\ SamePage
  /\ LET f2 == DisciplinaOnChange(fb, val)
         o == NotifyEffect(pg, token, ProximaEndpoint(route), fb, f2)
     IN Render(o.pg, f2) /\ Issue(net, o.reqs)
  /\ lastEvt' = Evt("selectDisciplina", 0, Null)

\* ---------------------------------------------------- Sidebar, navigation
SidebarShown == authorized /\ route \in Protected /\ ~sbUsuario.nil

HandleLogout ==
  /\ SidebarShown
  /\ UserActs
  /\ token' = ClearToken(token)
  /\ usuarioItem' = ClearUsuario(usuarioItem)
  /\ UNCHANGED navPending
  /\ RouterPush("/login", token', usuarioItem')
  /\ lastEvt' = Evt("handleLogout", 0, Null)

\* a Link of the Sidebar, or of the login and registration pages
NavLink(r) ==
  /\ r # route
  /\ \/ SidebarShown /\ r \in Protected
     \/ route = "/login" /\ r = "/cadastro"
     \/ route = "/cadastro" /\ r = "/login"
  /\ Quiet
  /\ RouterPush(r, token, usuarioItem)
  /\ lastEvt' = Evt("link", 0, Null)

\* the document is replaced by /login after window.location.href was set
NavCommit ==
  /\ navPending
  /\ navPending' = FALSE
  /\ UNCHANGED <<token, usuarioItem>>
  /\ LET v == Mount("/login", token, usuarioItem)
     IN Show(v) /\ Issue(<< >>, v.reqs)
  /\ lastEvt' = Evt("load", 0, Null)

\* ------------------------------------------------- login and registration
MsgLogin == "Falha no login. Verifique suas credenciais."
MsgCadastro == "Erro ao realizar cadastro."
MsgSemDisciplina == "Selecione uma disciplina"

LoginSubmit ==
  /\ route = "/login" /\ ~form.loading
  /\ Quiet
  /\ UNCHANGED <<route, authorized, sbUsuario, fb, pg>>
  /\ form' = [form EXCEPT !.loading = TRUE, !.error = ""]
  /\ Issue(net, <<Call(ApiRequest(token, "/login", NoQuery, NoBody),
                        Cont("login", Null, Null, NullUsuario))>>)
  /\ lastEvt' = Evt("loginSubmit", 0, Null)

CadastroSelectArea(val) ==
  /\ route = "/cadastro"
  /\ val \in SeqSet(Keys(form.areasMapping))
  /\ val # form.disciplina
  /\ Quiet
  /\ UNCHANGED <<route, authorized, sbUsuario, fb, pg>>
  /\ form' = [form EXCEPT !.disciplina = val]
  /\ Issue(net, << >>)
  /\ lastEvt' = Evt("cadastroSelectArea", 0, Null)

CadastroSubmit ==
  /\ route = "/cadastro" /\ ~form.loading
  /\ Quiet
  /\ UNCHANGED <<route, authorized, sbUsuario, fb, pg>>
  /\ IF ~Truthy(form.disciplina)
     THEN /\ form' = [form EXCEPT !.error = MsgSemDisciplina, !.loading = FALSE]
          /\ Issue(net, << >>)
     ELSE /\ form' = [form EXCEPT !.loading = TRUE, !.error = ""]
          /\ Issue(net, <<Call(ApiRequest(token, "/cadastro", NoQuery,
                                          [NoBody EXCEPT !.disciplina = form.disciplina]),
                               Cont("cadastro", Null, Null, NullUsuario))>>)
  /\ lastEvt' = Evt("cadastroSubmit", 0, Null)

\* ----------------------------------------------------------- responses
\* the history after the response to net[i] resumed fetchProxima: net[i] is
\* the request issued last when none of the mounted page follows it in net
\* and the one issued last was not answered before
HistAnswered(h, i, ok, q, msg) ==
  LET r == net[i]
      newest == /\ h.st = "pending"
                /\ \A j \in i + 1..Len(net) :
                      ~(net[j].who = "fetchProxima" /\ net[j].live)
      h1 == IF ~newest THEN h
            ELSE IF ok THEN [h EXCEPT !.st = "ok", !.q = q]
            ELSE [h EXCEPT !.st = "fail", !.msg = msg]
  IN IF ~r.live \/ h.st = "off" THEN h
     ELSE IF ok THEN [h1 EXCEPT !.area = r.area, !.disc = r.disc]
     ELSE h1

\* faulty variant: loading is not cleared
LoadingAfterKept(p) == p
\* the finally block of fetchProxima
LoadingAfter(p) == [p EXCEPT !.loading = FALSE]

\* fetchProxima after its await
FetchProximaDone(i) ==
  /\ i \in 1..Len(net)
  /\ net[i].who = "fetchProxima"
  /\ \E ok \in BOOLEAN, q \in Questoes, f \in Failures :
       LET status == IF ok THEN StatusOk ELSE f.status
           msg == OrElse(ErrorMessage(f.detail), MsgVazio(ProximaEndpoint(route)))
           p1 == IF ok THEN [pg EXCEPT !.questao = q] ELSE [pg EXCEPT !.error = msg]
           p2 == LoadingAfter(p1)
       IN /\ ok => f = CHOOSE x \in Failures : TRUE
          /\ ~ok => q = CHOOSE x \in Questoes : TRUE
          /\ token' = TokenAfter(status, token)
          /\ usuarioItem' = UsuarioAfter(status, usuarioItem)
          /\ navPending' = NavAfter(status, navPending)
          /\ SamePage
          /\ Render(IF net[i].live THEN p2 ELSE pg, fb)
          /\ IssueNet(Remove(net, i), << >>)
          /\ hist' = HistAnswered(hist, i, ok, q, msg)
          /\ lastEvt' = EvtResp("fetchProximaDone", status, Null,
                                IF ok THEN Null ELSE f.detail)

SubmitHandlers == {"handleSalvar", "handleConfirmar", "handleSalvarCorrecao"}
EndpointOf(who) == IF who = "handleSalvar" THEN "/proxima" ELSE "/proxima-low-match"

DoneOp(who) ==
  IF who = "handleSalvar" THEN "handleSalvarDone"
  ELSE IF who = "handleConfirmar" THEN "handleConfirmarDone"
  ELSE "handleSalvarCorrecaoDone"

\* faulty variant: saving is not cleared
SavingAfterKept(p) == p
\* the finally block of a submit handler
SavingAfter(p) == [p EXCEPT !.saving = FALSE]

\* faulty variant: the refetch reads the page's filter when the response arrives
RefetchAreaCurrent(r, p) == p.area

\* the filter values the handler passes to fetchProxima after a successful save
RefetchArea(r, p) == r.area
RefetchDisc(r, p) == r.disc

\* handleSalvar / handleConfirmar / handleSalvarCorrecao after the await
SubmitDone(i) ==
  /\ i \in 1..Len(net)
  /\ net[i].who \in SubmitHandlers
  /\ \E ok \in BOOLEAN, f \in Failures :
       LET r == net[i]
           status == IF ok THEN StatusOk ELSE f.status
           ep == EndpointOf(r.who)
           o == IF ~ok THEN Out(pg, << >>)
                ELSE IF r.live
                THEN FetchProxima(pg, token, ep, RefetchArea(r, pg), RefetchDisc(r, pg))
                ELSE Out(pg, KillCalls(<<FetchProximaReq(token, ep, RefetchArea(r, pg),
                                                        RefetchDisc(r, pg))>>))
           p2 == IF r.live THEN SavingAfter(o.pg) ELSE pg
       IN /\ ok => f = CHOOSE x \in Failures : TRUE
          /\ token' = TokenAfter(status, token)
          /\ usuarioItem' = UsuarioAfter(status, usuarioItem)
          /\ navPending' = NavAfter(status, navPending)
          /\ SamePage
          /\ Render(p2, fb)
          /\ Issue(Remove(net, i), o.reqs)
          /\ lastEvt' = EvtResp(DoneOp(r.who), status,
                                IF ok THEN Null ELSE ErrorMessage(f.detail),
                                IF ok THEN Null ELSE f.detail)

\* loadFilters of FilterBar after its await
LoadFiltersDone(i) ==
  /\ i \in 1..Len(net)
  /\ net[i].who = "loadFilters"
  /\ \E ok \in BOOLEAN, m \in Mappings, f \in Failures :
       LET r == net[i]
           status == IF ok THEN StatusOk ELSE f.status
           f1 == [fb EXCEPT !.areasMapping = m]
           a == ResolveArea(m, r.usr)
           f2 == IF a # Null THEN [f1 EXCEPT !.area = a] ELSE f1
           f3 == IF ok /\ r.live THEN f2 ELSE fb
           o == NotifyEffect(pg, token, ProximaEndpoint(route), fb, f3)
       IN /\ ok => f = CHOOSE x \in Failures : TRUE
          /\ ~ok => m = CHOOSE x \in Mappings : TRUE
          /\ token' = TokenAfter(status, token)
          /\ usuarioItem' = UsuarioAfter(status, usuarioItem)
          /\ navPending' = NavAfter(status, navPending)
          /\ SamePage
          /\ Render(o.pg, f3)
          /\ Issue(Remove(net, i), o.reqs)
          /\ lastEvt' = EvtResp("loadFiltersDone", status, Null,
                                IF ok THEN Null ELSE f.detail)

\* fetchFilters of CadastroPage after its await
FetchFiltersDone(i) ==
  /\ i \in 1..Len(net)
  /\ net[i].who = "fetchFilters"
  /\ \E ok \in BOOLEAN, m \in Mappings, f \in Failures :
       LET r == net[i]
           status == IF ok THEN StatusOk ELSE f.status
       IN /\ ok => f = CHOOSE x \in Failures : TRUE
          /\ ~ok => m = CHOOSE x \in Mappings : TRUE
          /\ token' = TokenAfter(status, token)
          /\ usuarioItem' = UsuarioAfter(status, usuarioItem)
          /\ navPending' = NavAfter(status, navPending)
          /\ UNCHANGED <<route, authorized, sbUsuario, fb, pg>>
          /\ form' = IF ok /\ r.live THEN [form EXCEPT !.areasMapping = m] ELSE form
          /\ Issue(Remove(net, i), << >>)
          /\ lastEvt' = EvtResp("fetchFiltersDone", status, Null,
                                IF ok THEN Null ELSE f.detail)

\* handleSubmit of LoginPage / CadastroPage after the await
AuthDone(i) ==
  /\ i \in 1..Len(net)
  /\ net[i].who \in {"login", "cadastro"}
  /\ \E ok \in BOOLEAN, t \in Tokens, u \in Usuarios, f \in Failures :
       LET r == net[i]
           status == IF ok THEN StatusOk ELSE f.status
           msg == OrElse(ErrorMessage(f.detail),
                         IF r.who = "login" THEN MsgLogin ELSE MsgCadastro)
       IN /\ ok => f = CHOOSE x \in Failures : TRUE
          /\ ~ok => (t = CHOOSE x \in Tokens : TRUE) /\ (u = CHOOSE x \in Usuarios : TRUE)
          /\ lastEvt' = EvtResp(IF r.who = "login" THEN "loginDone" ELSE "cadastroDone",
                                status, Null, IF ok THEN Null ELSE f.detail)
          /\ IF ok
             THEN /\ token' = SetAuthToken(token, t)
                  /\ usuarioItem' = SetAuthUsuario(usuarioItem, u)
                  /\ UNCHANGED navPending
                  /\ IF route # "/classificar"
                     THEN LET v == Mount("/classificar", token', usuarioItem')
                          IN Show(v) /\ Issue(Kill(Remove(net, i)), v.reqs)
                     ELSE /\ SamePage
                          /\ Render(pg, fb)
                          /\ Issue(Remove(net, i), << >>)
             ELSE /\ token' = TokenAfter(status, token)
                  /\ usuarioItem' = UsuarioAfter(status, usuarioItem)
                  /\ navPending' = NavAfter(status, navPending)
                  /\ UNCHANGED <<route, authorized, sbUsuario, fb, pg>>
                  /\ form' = IF r.live
                             THEN [form EXCEPT !.error = msg, !.loading = FALSE]
                             ELSE form
                  /\ Issue(Remove(net, i), << >>)

\* ------------------------------------------------------------ the system
Next ==
  \/ \E m \in 1..3 : SelectModulo(m)
  \/ \E t \in Observacoes : SetObservacao(t)
  \/ Pular
  \/ TentarNovamente
  \/ ClickSalvar
  \/ ClickConfirmar
  \/ ClickSalvarCorrecao
  \/ QueroCorrigir
  \/ Voltar
  \/ \E a \in {"Exatas", "Humanas"} : SelectArea(a)
  \/ \E d \in {"Matematica", "Fisica", "Exatas"} : SelectDisciplina(d)
  \/ HandleLogout
  \/ \E r \in Routes : NavLink(r)
  \/ NavCommit
  \/ LoginSubmit
  \/ \E a \in {"Exatas", "Humanas"} : CadastroSelectArea(a)
  \/ CadastroSubmit
  \/ \E i \in 1..MaxInFlight : FetchProximaDone(i)
  \/ \E i \in 1..MaxInFlight : SubmitDone(i)
  \/ \E i \in 1..MaxInFlight : LoadFiltersDone(i)
  \/ \E i \in 1..MaxInFlight : FetchFiltersDone(i)
  \/ \E i \in 1..MaxInFlight : AuthDone(i)

Spec == Init /\ [][Next]_vars

\* ------------------------------------------------ handlers called directly
\* handleSalvar / handleSalvarCorrecao invoked by a caller that does not go
\* through the button, so whatever the disabled attribute says
CallHandleSalvar ==
  /\ route = "/classificar"
  /\ Quiet /\ SamePage
  /\ LET o == HandleSalvar(pg, token)
     IN Render(o.pg, fb) /\ Issue(net, o.reqs)
  /\ lastEvt' = Evt("handleSalvar", 0, Null)

CallHandleSalvarCorrecao ==
  /\ route = "/verificar"
  /\ Quiet /\ SamePage
  /\ LET o == HandleSalvarCorrecao(pg, token)
     IN Render(o.pg, fb) /\ Issue(net, o.reqs)
  /\ lastEvt' = Evt("handleSalvarCorrecao", 0, Null)

NextCaller == Next \/ CallHandleSalvar \/ CallHandleSalvarCorrecao

SpecCaller == Init /\ [][NextCaller]_vars

\* ------------------------------------- the system with answered requests
\* the response to the request in flight net[i] arrives
ResponseTo(i) ==
  \/ FetchProximaDone(i)
  \/ SubmitDone(i)
  \/ LoadFiltersDone(i)
  \/ FetchFiltersDone(i)
  \/ AuthDone(i)

\* every request gets its response: the oldest request in flight is
\* answered eventually, which leaves any later one free to be answered first
SpecFair == Init /\ [][Next]_vars /\ WF_vars(ResponseTo(1))

\* ------------------------------------------- the system with its history
InitHist == Boot(NoHist)

SpecHist == InitHist /\ [][Next]_vars

\* -------------------------------------------------- MatchBadge on its own
\* MatchBadge rendered with any score, beside a page that stays as it is
InitBadge ==
  /\ \E sc \in Scores \cup {NoScore} : badge = MatchBadge(sc)
  /\ LET v == Mount("/login", Null, NoItem)
     IN /\ token = Null
        /\ usuarioItem = NoItem
        /\ navPending = FALSE
        /\ route = v.route
        /\ authorized = v.authorized
        /\ sbUsuario = v.sbUsuario
        /\ fb = v.fb
        /\ pg = v.pg
        /\ form = v.form
        /\ net = Awaiting(v.reqs)
        /\ sent = Wire(v.reqs)
        /\ lastEvt = Evt("load", 0, Null)
        /\ hist = HistOff

BadgeRender ==
  /\ \E sc \in Scores \cup {NoScore} : badge' = MatchBadge(sc)
  /\ UNCHANGED vars

NextBadge == BadgeRender

SpecBadge == InitBadge /\ [][NextBadge]_<<vars, badge>>

\* =================================================================== claims
IsSalvar(r) == r.endpoint = "/salvar"
IsProxima(r) == r.endpoint \in {"/proxima", "/proxima-low-match"}
NeedsModulo(r) == IsSalvar(r) /\ r.body.tipo_acao \in {"classificacao_nova", "correcao"}
Sent == SeqSet(sent)

\* C1: no /salvar request of kind classificacao_nova or correcao goes out
\* without a module id, and a call of handleSalvar / handleSalvarCorrecao
\* while no module is selected sends nothing and changes nothing of the
\* page state (nor of the set of pending requests).
C1_NoModuloNoRequest ==
  /\ [](\A r \in Sent : NeedsModulo(r) => r.body.habilidade_modulo_id # 0)
  /\ [][(lastEvt'.op \in {"handleSalvar", "handleSalvarCorrecao"}
         /\ pg.moduloSelecionado = NullModulo)
        => (sent' = << >> /\ pg' = pg /\ net' = net)]_vars

C1_Witness ==
  /\ lastEvt.op = "handleSalvar"
  /\ pg.moduloSelecionado = NullModulo
  /\ ShowsQuestao
  /\ sent = << >>

C1_WitnessCorrecao ==
  /\ lastEvt.op = "handleSalvarCorrecao"
  /\ pg.moduloSelecionado = NullModulo
  /\ ShowsModulos
  /\ sent = << >>

\* C2: the module of every /salvar request of kind classificacao_nova or
\* correcao is one of the modulos_possiveis of the question the request
\* names, with that module's own name and descriptions.
C2_ModuloOfQuestao ==
  \A r \in Sent :
    NeedsModulo(r) =>
      /\ r.body.habilidade_modulo_id \in SeqSet(ModulosPossiveis(r.body.questao_id))
      /\ r.body.modulo_escolhido = Modulo(r.body.habilidade_modulo_id).modulo
      /\ r.body.classificacao_trieduc =
           Modulo(r.body.habilidade_modulo_id).habilidade_descricao
      /\ r.body.descricao_assunto = Modulo(r.body.habilidade_modulo_id).descricao

\* the task that just ran is the continuation of the submit handler net[i]
SubmitAnswered(i, status) ==
  /\ i \in 1..Len(net)
  /\ net[i].who \in SubmitHandlers
  /\ lastEvt'.op = DoneOp(net[i].who)
  /\ lastEvt'.status = status
  /\ Len(net') >= Len(net) - 1
  /\ SubSeq(net', 1, Len(net) - 1) = Remove(net, i)

\* C3: a submit handler keeps the (area, disciplina) of the page at the
\* moment it is invoked, and after its /salvar succeeded the one request it
\* issues is the fetch-next of its page with exactly those values, whatever
\* the page's filter is by then.
C3_RefetchSameFilter ==
  /\ [][(lastEvt'.op \in SubmitHandlers /\ sent' # << >>)
        => /\ net'[Len(net')].area = pg.area
           /\ net'[Len(net')].disc = pg.disciplinaFiltro]_vars
  /\ [][\A i \in 1..MaxInFlight + 1 :
          SubmitAnswered(i, StatusOk)
          => /\ Len(sent') = 1
             /\ sent'[1].endpoint = EndpointOf(net[i].who)
             /\ sent'[1].query = ProximaQuery(net[i].area, net[i].disc)]_vars

\* a save succeeded after the filter was changed under it
C3_Witness ==
  /\ lastEvt.op \in {"handleSalvarDone", "handleConfirmarDone", "handleSalvarCorrecaoDone"}
  /\ lastEvt.status = StatusOk
  /\ Len(sent) = 1
  /\ IsProxima(sent[1])
  /\ pg.loading
  /\ sent[1].query # ProximaQuery(pg.area, pg.disciplinaFiltro)

\* C4: whenever FilterBar's area changes, by the user's choice or by the
\* resolution of the user's area, its discipline is empty afterwards.
C4_AreaChangeClearsDisciplina ==
  [][fb'.area # fb.area => fb'.disciplinaId = ""]_vars

\* an area was picked while a discipline of another area was selected: the
\* fetch issued for that discipline is still pending
C4_Witness ==
  /\ lastEvt.op = "selectArea"
  /\ sent # << >>
  /\ fb.disciplinaId = ""
  /\ \E i \in 1..Len(net) :
       net[i].who = "fetchProxima" /\ Truthy(net[i].disc) /\ net[i].area # fb.area

\* C5: FilterBar's discipline is empty or one of the disciplines its mapping
\* lists for its area, and so is the (area, disciplina) pair the page holds
\* while FilterBar is mounted.
C5_DisciplinaOfArea ==
  fb.mounted =>
    /\ fb.disciplinaId = "" \/ Includes(DisciplinasDaArea(fb), fb.disciplinaId)
    /\ pg.area = fb.area /\ pg.disciplinaFiltro = fb.disciplinaId

C5_Witness ==
  /\ fb.mounted
  /\ Truthy(fb.disciplinaId)
  /\ pg.disciplinaFiltro = fb.disciplinaId
  /\ lastEvt.op = "selectDisciplina"

NonAdminWithArea(u) == ~u.nil /\ Truthy(u.disciplina) /\ ~u.is_admin
\* FilterBar's loadFilters has run to its end, with or without a mapping
FiltersSettled ==
  fb.mounted /\ \A i \in 1..Len(net) : ~(net[i].who = "loadFilters" /\ net[i].live)

\* C6 as stated: once loadFilters is over, whatever it loaded, a non-admin
\* user with an assigned area is offered exactly one area.
C6_ExactlyOwnArea ==
  (FiltersSettled /\ NonAdminWithArea(fb.usuario))
    => Cardinality(SeqSet(AreaOptions(fb))) = 1

\* C6 amended: a non-admin user with an assigned area is never offered an
\* area other than the selected one; the list holds exactly that area once a
\* mapping is loaded of which the selected area is a key, and is empty
\* otherwise (before the load, after a failed load, and when the stored
\* value is neither an area nor a discipline of the mapping).
C6_AtMostOwnArea ==
  (fb.mounted /\ NonAdminWithArea(fb.usuario))
    => AreaOptions(fb) =
         IF HasKey(fb.areasMapping, fb.area) THEN <<fb.area>> ELSE << >>

\* a legacy user, whose stored discipline resolved to its area
C6_Witness ==
  /\ fb.mounted
  /\ fb.usuario = Usuario("Matematica", FALSE)
  /\ AreaOptions(fb) = <<"Exatas">>

\* the areas a stored value can resolve to
ResolvedAreas(u) == {ResolveArea(m, u) : m \in Mappings} \ {Null}

\* C7: while the stored user is a non-admin with an assigned area, every
\* fetch-next request carries an area, which is an area the user's stored
\* value resolves to, and a discipline that is absent or listed under it.
C7_FetchScopedToArea ==
  NonAdminWithArea(GetUsuario(usuarioItem)) =>
    \A r \in Sent :
      IsProxima(r) =>
        /\ r.query.area \in ResolvedAreas(GetUsuario(usuarioItem))
        /\ \/ r.query.disciplina_id = Null
           \/ Includes(Lookup(MapAreas, r.query.area), r.query.disciplina_id)

\* the area and the discipline options C8 expects of a mapping and a stored value
C8_Area(m, v) ==
  IF ~Truthy(v) THEN ""
  ELSE IF \E i \in 1..Len(m) : m[i][1] = v THEN v
  ELSE IF \E i \in 1..Len(m) : v \in SeqSet(m[i][2])
  THEN LET first == CHOOSE i \in 1..Len(m) :
                      /\ v \in SeqSet(m[i][2])
                      /\ \A j \in 1..(i - 1) : v \notin SeqSet(m[j][2])
       IN m[first][1]
  ELSE ""
C8_Options(m, a) ==
  IF \E i \in 1..Len(m) : m[i][1] = a
  THEN m[CHOOSE i \in 1..Len(m) : m[i][1] = a][2] ELSE << >>

\* the task that just ran is loadFilters, answered with a mapping, of the
\* FilterBar that is mounted
FiltersLoaded(i) ==
  /\ i \in 1..Len(net)
  /\ net[i].who = "loadFilters" /\ net[i].live
  /\ lastEvt'.op = "loadFiltersDone" /\ lastEvt'.status = StatusOk
  /\ Len(net') >= Len(net) - 1
  /\ SubSeq(net', 1, Len(net) - 1) = Remove(net, i)

\* C8: when loadFilters has loaded a mapping for a user whose stored value
\* is v, FilterBar's area is v if v is a key of the mapping, else the first
\* area in the mapping's order whose disciplines include v, else still
\* empty; the discipline options are that area's list, in its order.
C8_AreaResolution ==
  [][\A i \in 1..MaxInFlight + 1 :
       FiltersLoaded(i)
       => /\ fb'.area = C8_Area(fb'.areasMapping, net[i].usr.disciplina)
          /\ DisciplinaOptions(fb') = C8_Options(fb'.areasMapping, fb'.area)]_vars

\* the scenario of the specification: legacy value "Matematica"
C8_Witness ==
  /\ lastEvt.op = "loadFiltersDone"
  /\ lastEvt.status = StatusOk
  /\ fb.usuario = Usuario("Matematica", FALSE)
  /\ fb.area = "Exatas"
  /\ DisciplinaOptions(fb) = <<"Matematica", "Fisica">>

\* C9: the task that receives a 401 leaves no token and no user in the
\* store, has the navigation to /login pending and sends nothing; the store
\* gets a token again only from a /login or /cadastro response; and while
\* no token is stored every request sent carries no Authorization header.
C9_Unauthorized ==
  /\ [](/\ lastEvt.status = StatusUnauthorized
           => /\ token = Null /\ usuarioItem = NoItem
              /\ navPending /\ sent = << >>
        /\ token = Null => \A r \in Sent : r.auth = <<NoAuth>>)
  /\ [][(token = Null /\ token' # Null)
        => lastEvt'.op \in {"loginDone", "cadastroDone"}]_vars

\* a request went out after the 401, before the document was replaced
C9_Witness ==
  /\ navPending
  /\ token = Null
  /\ sent # << >>
  /\ sent[1].auth = <<NoAuth>>

\* C10: every request carries the Authorization header "Bearer <token>" of
\* the token in the store when it is sent, and none when there is no token.
C10_HeaderIffToken ==
  \A r \in Sent :
    r.auth = IF token # Null THEN <<"Bearer", token>> ELSE <<NoAuth>>

\* the requests of the page opened by a login carry the token just stored
C10_Witness ==
  /\ lastEvt.op = "loginDone"
  /\ lastEvt.status = StatusOk
  /\ sent # << >>
  /\ \A r \in Sent : r.auth = <<"Bearer", token>>

\* a request sent while no token is stored
C10_WitnessNoToken ==
  /\ token = Null
  /\ sent # << >>
  /\ \A r \in Sent : r.auth = <<NoAuth>>

\* the tasks that are the continuation of an awaited apiRequest call
DoneOps ==
  {"fetchProximaDone", "handleSalvarDone", "handleConfirmarDone",
   "handleSalvarCorrecaoDone", "loadFiltersDone", "fetchFiltersDone",
   "loginDone", "cadastroDone"}
SubmitDoneOps == {DoneOp(w) : w \in SubmitHandlers}

\* the task that just ran is the continuation net[i] of a call by handler
\* who, and it issued no request
Answered(i, who, op) ==
  /\ i \in 1..Len(net)
  /\ net[i].who = who
  /\ lastEvt'.op = op
  /\ net' = Remove(net, i)

\* C11: every request sent has one caller awaiting it and every response
\* resumes one caller, once.  The task resumed by a non-success status
\* (401 included) sends nothing, receives no value (no question, no
\* mapping, no token) and gets as error message the detail of the response
\* when there is one and the generic message otherwise; the task resumed by
\* a success status receives the value.
C11_OneRequestOneOutcome ==
  [][LET failed == lastEvt'.op \in DoneOps /\ lastEvt'.status # StatusOk
         thrown == IF Truthy(lastEvt'.detail) THEN lastEvt'.detail
                   ELSE ErroGenerico
     IN /\ lastEvt'.op # "load"
           => Len(net') + (IF lastEvt'.op \in DoneOps THEN 1 ELSE 0)
                = Len(net) + Len(sent')
        /\ failed
           => /\ sent' = << >>
              /\ pg'.questao = pg.questao
              /\ fb'.areasMapping = fb.areasMapping
              /\ form'.areasMapping = form.areasMapping
              /\ token' \in {token, Null}
              /\ lastEvt'.op \in SubmitDoneOps => lastEvt'.alert = thrown
              /\ \A i \in 1..MaxInFlight + 1 :
                   /\ (Answered(i, "fetchProxima", "fetchProximaDone") /\ net[i].live)
                      => pg'.error = thrown
                   /\ ((\/ Answered(i, "login", "loginDone")
                        \/ Answered(i, "cadastro", "cadastroDone")) /\ net[i].live)
                      => form'.error = thrown
        /\ (lastEvt'.op \in DoneOps /\ lastEvt'.status = StatusOk)
           => /\ lastEvt'.alert = Null
              /\ lastEvt'.op \in {"loginDone", "cadastroDone"} => token' \in Tokens
              /\ \A i \in 1..MaxInFlight + 1 :
                   (Answered(i, "fetchProxima", "fetchProximaDone") /\ net[i].live)
                   => pg'.questao \in Questoes /\ pg'.error = pg.error]_vars

\* a save failed with a structured detail, which is the message alerted
C11_Witness ==
  /\ lastEvt.op = "handleSalvarDone"
  /\ lastEvt.status = StatusError
  /\ lastEvt.detail = "detalhe"
  /\ lastEvt.alert = "detalhe"
  /\ sent = << >>

\* a fetch failed with 401 and no detail: the generic message is displayed
C11_WitnessGenerico ==
  /\ lastEvt.op = "fetchProximaDone"
  /\ lastEvt.status = StatusUnauthorized
  /\ lastEvt.detail = Null
  /\ pg.error = ErroGenerico
  /\ sent = << >>

\* the page is loading and holds no question, selection, observation or
\* error, and is in the reviewing sub-mode
C12_Cleared(p) ==
  /\ p.loading
  /\ p.questao = 0
  /\ p.moduloSelecionado = NullModulo
  /\ p.observacao = ""
  /\ p.error = ""
  /\ ~p.isCorrecting
\* r is the fetch-next request of the route for the filter (a, d): each
\* parameter is present exactly when its value is not empty
C12_FetchOf(r, rt, a, d) ==
  /\ r.endpoint = (IF rt = "/verificar" THEN "/proxima-low-match" ELSE "/proxima")
  /\ r.query.area = (IF a = "" THEN Null ELSE a)
  /\ r.query.disciplina_id = (IF d = "" THEN Null ELSE d)
\* the task that just ran mounted the page of a protected route
C12_Mounted ==
  /\ route \in Protected /\ authorized
  /\ lastEvt.op \in {"load", "link", "loginDone", "cadastroDone"}
  /\ sent # << >>

\* C12: the task that mounts a workflow page leaves it loading and cleared,
\* its first fetch-next request being for the page's initial filter and its
\* last for the filter the page holds; and a task that
\* changes the (area, disciplina) pair of a mounted page leaves it loading
\* and cleared and sends one request, the fetch-next for the new pair.
C12_FilterChangeFetches ==
  /\ [](C12_Mounted
        => LET fetches == SelectSeq(sent, IsProxima)
           IN /\ C12_Cleared(pg)
              /\ fetches # << >>
              /\ C12_FetchOf(fetches[1], route,
                             IF GetUsuario(usuarioItem).disciplina = Null THEN ""
                             ELSE GetUsuario(usuarioItem).disciplina, "")
              /\ C12_FetchOf(fetches[Len(fetches)], route, pg.area,
                             pg.disciplinaFiltro))
  /\ [][(/\ route' = route /\ route \in Protected /\ authorized
         /\ <<pg'.area, pg'.disciplinaFiltro>> # <<pg.area, pg.disciplinaFiltro>>)
        => /\ C12_Cleared(pg')
           /\ Len(sent') = 1
           /\ C12_FetchOf(sent'[1], route, pg'.area, pg'.disciplinaFiltro)]_vars

\* an area was chosen with no discipline: the request names the area only
C12_Witness ==
  /\ lastEvt.op = "selectArea"
  /\ pg.area # "" /\ pg.disciplinaFiltro = ""
  /\ C12_Cleared(pg)
  /\ sent = <<[endpoint |-> ProximaEndpoint(route),
               query |-> [area |-> pg.area, disciplina_id |-> Null],
               auth |-> sent[1].auth, body |-> NoBody]>>

\* C13: when the response of a fetch-next request resumes fetchProxima on
\* its mounted page, a success leaves the page showing a question (ready)
\* and a failure leaves it showing the empty state with the message of the
\* failure.
C13_OutcomeDeterminesState ==
  [][\A i \in 1..MaxInFlight + 1 :
       (Answered(i, "fetchProxima", "fetchProximaDone") /\ net[i].live)
       => IF lastEvt'.status = StatusOk
          THEN ShowsQuestao' /\ pg'.questao \in Questoes
          ELSE /\ ShowsEmpty'
               /\ pg'.error = (IF Truthy(lastEvt'.detail) THEN lastEvt'.detail
                               ELSE ErroGenerico)]_vars

\* C14: Pular leaves the page loading with no question, selection,
\* observation or error, keeps the page's filter pair and its saving flag,
\* and sends exactly one request: the fetch-next for that pair, no /salvar.
C14_SkipDoesNotSubmit ==
  [][lastEvt'.op = "pular"
     => /\ C12_Cleared(pg')
        /\ pg'.area = pg.area
        /\ pg'.disciplinaFiltro = pg.disciplinaFiltro
        /\ pg'.saving = pg.saving
        /\ Len(sent') = 1
        /\ ~IsSalvar(sent'[1])
        /\ C12_FetchOf(sent'[1], route, pg.area, pg.disciplinaFiltro)
        /\ net' = Append(net, Cont("fetchProxima", pg.area, pg.disciplinaFiltro,
                                   NullUsuario))]_vars

\* a question was skipped in the verification workflow under a discipline filter
C14_Witness ==
  /\ lastEvt.op = "pular"
  /\ route = "/verificar"
  /\ Truthy(pg.disciplinaFiltro)
  /\ C12_Cleared(pg)
  /\ Len(sent) = 1
  /\ sent[1].endpoint = "/proxima-low-match"
  /\ sent[1].query.disciplina_id = pg.disciplinaFiltro

\* the submit-decision requests of the mounted page that await a response
SubmitsOutstanding ==
  {i \in 1..Len(net) : net[i].who \in SubmitHandlers /\ net[i].live}

\* C15: a click on Save, Confirm or Save Correction submits only when the
\* page is not saving, and Save and Save Correction only when a module is
\* selected; the page is saving exactly while a submit-decision request of
\* it awaits its response, and there is never more than one.
C15_OneSubmitOutstanding ==
  /\ [](/\ Cardinality(SubmitsOutstanding) <= 1
        /\ pg.saving <=> SubmitsOutstanding # {})
  /\ [][(lastEvt'.op \in SubmitHandlers /\ sent' # << >>)
        => /\ ~pg.saving
           /\ pg'.saving
           /\ lastEvt'.op # "handleConfirmar" => pg.moduloSelecionado # NullModulo]_vars

\* a save is in flight while the page shows a question with a module
\* selected: the save button is rendered, and disabled
C15_Witness ==
  /\ ShowsQuestao
  /\ route = "/classificar"
  /\ pg.moduloSelecionado # NullModulo
  /\ pg.saving
  /\ Cardinality(SubmitsOutstanding) = 1

\* the fetch-next requests of the mounted page that await a response
FetchesOutstanding ==
  {i \in 1..Len(net) : net[i].who = "fetchProxima" /\ net[i].live}

\* C16: at most one fetch-next request of the mounted page awaits its
\* response at any time.
C16_OneFetchOutstanding == Cardinality(FetchesOutstanding) <= 1

\* the task that just ran resumed the submit handler net[i] of the mounted
\* page with a non-success status
SubmitFailed(i) ==
  /\ i \in 1..Len(net)
  /\ net[i].who \in SubmitHandlers /\ net[i].live
  /\ lastEvt'.op = DoneOp(net[i].who)
  /\ lastEvt'.status # StatusOk
  /\ net' = Remove(net, i)

\* C17 as stated: after a failed submission the error is alerted, saving is
\* cleared and the page is in ready with the question, the module and the
\* observation of the decision that was submitted.
C17_FailureKeepsSubmitted ==
  [][\A i \in 1..MaxInFlight + 1 :
       SubmitFailed(i)
       => /\ lastEvt'.alert # Null
          /\ ~pg'.saving
          /\ ShowsQuestao'
          /\ pg'.questao = net[i].body.questao_id
          /\ pg'.observacao = net[i].body.observacao
          /\ net[i].who # "handleConfirmar"
             => pg'.moduloSelecionado.id = net[i].body.habilidade_modulo_id]_vars

\* C17 amended: a failed submission alerts the message of the failure,
\* clears saving and changes nothing else of the page, which therefore
\* holds the question, selection and observation it held when the response
\* arrived, and sends nothing; a 401 also clears the session and forces the
\* navigation to /login.
C17_FailureChangesNothing ==
  [][\A i \in 1..MaxInFlight + 1 :
       SubmitFailed(i)
       => /\ lastEvt'.alert = (IF Truthy(lastEvt'.detail) THEN lastEvt'.detail
                               ELSE ErroGenerico)
          /\ pg' = [pg EXCEPT !.saving = FALSE]
          /\ pg.saving
          /\ fb'.area = fb.area /\ fb'.disciplinaId = fb.disciplinaId
          /\ sent' = << >>
          /\ navPending' = (navPending \/ lastEvt'.status = StatusUnauthorized)]_vars

\* a save failed and left the question, the selected module and the
\* observation for a retry: the save button is enabled again
C17_Witness ==
  /\ lastEvt.op = "handleSalvarDone"
  /\ lastEvt.status = StatusError
  /\ lastEvt.alert # Null
  /\ ShowsQuestao
  /\ pg.moduloSelecionado # NullModulo
  /\ pg.observacao = "obs"
  /\ ~SalvarDisabled

\* the kind of decision each submit handler sends
C18_TipoAcao(op) ==
  IF op = "handleSalvar" THEN "classificacao_nova"
  ELSE IF op = "handleConfirmar" THEN "confirmacao" ELSE "correcao"

\* C18: a click on Save, Confirm or Save Correction puts the page in saving,
\* changes nothing else of it and sends exactly one request, the /salvar of
\* the handler's kind; the success of that request, on the mounted page,
\* clears saving, leaves the page loading and cleared and sends exactly one
\* request, the fetch-next of the page; its failure sends nothing.
C18_SaveThenRefetch ==
  /\ [][lastEvt'.op \in SubmitHandlers
        => /\ pg' = [pg EXCEPT !.saving = TRUE]
           /\ Len(sent') = 1
           /\ IsSalvar(sent'[1])
           /\ sent'[1].body.tipo_acao = C18_TipoAcao(lastEvt'.op)
           /\ sent'[1].body.questao_id = pg.questao]_vars
  /\ [][\A i \in 1..MaxInFlight + 1 :
          /\ (SubmitAnswered(i, StatusOk) /\ net[i].live)
             => /\ ~pg'.saving
                /\ C12_Cleared(pg')
                /\ Len(sent') = 1
                /\ sent'[1].endpoint = ProximaEndpoint(route)
                /\ Len(net') = Len(net)
                /\ net'[Len(net')].who = "fetchProxima"
          /\ \A st \in {StatusUnauthorized, StatusError} :
               SubmitAnswered(i, st) => sent' = << >> /\ pg'.loading = pg.loading]_vars

\* a confirmation succeeded: the verification page is loading the next question
C18_Witness ==
  /\ lastEvt.op = "handleConfirmarDone"
  /\ lastEvt.status = StatusOk
  /\ route = "/verificar"
  /\ C12_Cleared(pg) /\ ~pg.saving
  /\ Len(sent) = 1
  /\ sent[1].endpoint = "/proxima-low-match"

IsConfirmacao(r) == IsSalvar(r) /\ r.body.tipo_acao = "confirmacao"

\* C19: every /salvar request of kind confirmacao carries a question id and
\* an observation and no module reference (no id, name or description);
\* and Confirm can be clicked in the reviewing sub-mode whenever the page is
\* not saving, whether a module is selected or not.
C19_ConfirmacaoSemModulo ==
  /\ \A r \in Sent :
       IsConfirmacao(r)
       => /\ r.body.questao_id \in Questoes
          /\ r.body.observacao \in Observacoes
          /\ r.body.habilidade_modulo_id = 0
          /\ r.body.modulo_escolhido = << >>
          /\ r.body.classificacao_trieduc = << >>
          /\ r.body.descricao_assunto = << >>
  /\ (ShowsReviewing /\ ~pg.saving /\ UserActs) => ENABLED ClickConfirmar

\* a confirmation was sent while a module, selected in the correcting
\* sub-mode before Voltar, is still selected
C19_Witness ==
  /\ lastEvt.op = "handleConfirmar"
  /\ pg.moduloSelecionado # NullModulo
  /\ Len(sent) = 1
  /\ IsConfirmacao(sent[1])
  /\ sent[1].body.habilidade_modulo_id = 0

\* C20: Voltar, in the correcting sub-mode, puts the page in the reviewing
\* sub-mode and changes nothing else of it (question, observation, module
\* selection, saving, loading, error, filter); it sends no request and
\* leaves the pending ones pending.
C20_VoltarKeepsState ==
  [][lastEvt'.op = "voltar"
     => /\ pg.isCorrecting
        /\ pg' = [pg EXCEPT !.isCorrecting = FALSE]
        /\ ShowsReviewing'
        /\ sent' = << >>
        /\ net' = net
        /\ fb' = fb
        /\ token' = token /\ usuarioItem' = usuarioItem]_vars

\* Voltar with an observation typed and a save of the page in flight
C20_Witness ==
  /\ lastEvt.op = "voltar"
  /\ ShowsReviewing
  /\ pg.observacao = "obs"
  /\ pg.questao \in Questoes
  /\ pg.saving
  /\ sent = << >>

\* the user events of the workflow panel (what is rendered below FilterBar)
PanelOps ==
  {"selectModulo", "setObservacao", "pular", "tentarNovamente", "handleSalvar",
   "handleConfirmar", "handleSalvarCorrecao", "queroCorrigir", "voltar"}

\* C21 as stated: in the reviewing sub-mode with a question shown, the only
\* user events of the workflow panel are Confirm and the switch to correcting.
C21_OnlyConfirmOrCorrect ==
  [][(ShowsReviewing /\ lastEvt'.op \in PanelOps)
     => lastEvt'.op \in {"handleConfirmar", "queroCorrigir"}]_vars

\* C21 amended: in the reviewing sub-mode with a question shown, the user
\* events of the workflow panel are Confirm, the switch to correcting, Pular
\* and the editing of the observation, and no other; the only decision that
\* can be submitted there is a confirmation; the switch and Pular are always
\* available, Confirm whenever the page is not saving.
C21_ReviewingActions ==
  /\ []((ShowsReviewing /\ UserActs)
        => /\ ENABLED QueroCorrigir
           /\ ENABLED Pular
           /\ ~pg.saving => ENABLED ClickConfirmar)
  /\ [][(ShowsReviewing /\ lastEvt'.op \in PanelOps)
        => /\ lastEvt'.op \in {"handleConfirmar", "queroCorrigir", "pular",
                              "setObservacao"}
           /\ \A i \in 1..Len(sent') : IsSalvar(sent'[i]) => IsConfirmacao(sent'[i])]_vars

\* the observation was edited in the reviewing sub-mode
C21_Witness ==
  /\ ShowsReviewing
  /\ lastEvt.op = "setObservacao"
  /\ pg.observacao = "obs"
  /\ ~pg.saving

HasToken == Truthy(token)
HasUsuario == usuarioItem.has
AuthDoneOps == {"loginDone", "cadastroDone"}

\* C23: the token or the user profile becomes present only in the step of
\* a successful /login or /cadastro response, and becomes absent only in
\* the step of a logout or of a response with status 401; a failed login
\* or registration response leaves the store as it was or empties it; a
\* registration submitted with no area selected sends no request, leaves
\* the requests in flight as they were and shows "Selecione uma disciplina".
C23_SessionLifecycle ==
  [][ /\ ((~HasToken /\ HasToken') \/ (~HasUsuario /\ HasUsuario'))
         => (lastEvt'.op \in AuthDoneOps /\ lastEvt'.status = StatusOk)
      /\ ((HasToken /\ ~HasToken') \/ (HasUsuario /\ ~HasUsuario'))
         => (lastEvt'.op = "handleLogout" \/ lastEvt'.status = StatusUnauthorized)
      /\ (lastEvt'.op \in AuthDoneOps /\ lastEvt'.status # StatusOk)
         => /\ token' \in {token, Null}
            /\ usuarioItem' \in {usuarioItem, NoItem}
      /\ (lastEvt'.op \in AuthDoneOps /\ lastEvt'.status = StatusOk)
         => (HasToken' /\ HasUsuario')
      /\ (lastEvt'.op = "cadastroSubmit" /\ ~Truthy(form.disciplina))
         => /\ sent' = << >>
            /\ net' = net
            /\ form'.error = "Selecione uma disciplina"
            /\ ~form'.loading
            /\ UNCHANGED <<token, usuarioItem>>
    ]_vars

\* a registration succeeded and established the session
C23_Witness ==
  /\ lastEvt.op = "cadastroDone"
  /\ lastEvt.status = StatusOk
  /\ HasToken /\ HasUsuario

\* the mounts of a view
MountOps(e) ==
  \/ e.op \in {"load", "link", "handleLogout"}
  \/ e.op \in AuthDoneOps /\ e.status = StatusOk

\* C24: the content inside AppLayout is rendered only on a protected view
\* and starts being rendered only in a step that leaves a token in the
\* store; a document loaded with no token in the store shows /login or
\* /cadastro and renders no content, and so does any view mounted with no
\* token; a successful login or registration response leaves the token
\* stored and /classificar shown with its content rendered.
C24_TokenGatesContent ==
  /\ [](authorized <=> route \in Protected)
  /\ [](lastEvt.op = "load" => (authorized => HasToken))
  /\ []((lastEvt.op = "load" /\ ~HasToken) => (route \notin Protected /\ ~authorized))
  /\ [][ /\ (authorized' /\ ~authorized) => HasToken'
         /\ (MountOps(lastEvt') /\ route' # route)
            => (authorized' <=> HasToken' /\ route' \in Protected)
         /\ (MountOps(lastEvt') /\ route' # route /\ ~HasToken')
            => (route' \notin Protected /\ ~authorized')
         /\ (lastEvt'.op \in AuthDoneOps /\ lastEvt'.status = StatusOk)
            => (HasToken' /\ route' = "/classificar" /\ authorized')
       ]_vars

\* after a successful login /classificar is shown with its content
C24_Witness ==
  /\ lastEvt.op = "loginDone"
  /\ lastEvt.status = StatusOk
  /\ route = "/classificar"
  /\ authorized
  /\ HasToken

\* C30: in every reachable state the token and the user profile are both
\* in the store or both absent from it.
C30_TokenAndUsuarioTogether == HasToken <=> HasUsuario

\* a 401 response removed both
C30_Witness ==
  /\ lastEvt.status = StatusUnauthorized
  /\ ~HasToken /\ ~HasUsuario
  /\ navPending

\* an admin, or a user with no area assigned (no stored profile included)
AdminOrNoArea(u) == u.is_admin \/ ~Truthy(u.disciplina)

\* C25: while FilterBar is shown to an admin or to a user with no assigned
\* area, the area options are the keys of the loaded mapping, in its order,
\* each of them can be selected, and selecting one makes it the active
\* area and clears the discipline.
C25_FullAreaList ==
  /\ []((authorized /\ fb.mounted /\ AdminOrNoArea(fb.usuario))
        => /\ AreaOptions(fb) = Keys(fb.areasMapping)
           /\ UserActs => \A a \in SeqSet(Keys(fb.areasMapping)) : ENABLED SelectArea(a))
  /\ [][\A a \in {"Exatas", "Humanas"} :
          (SelectArea(a) /\ AdminOrNoArea(fb.usuario))
            => (fb'.area = a /\ fb'.disciplinaId = "")]_vars

\* an admin whose own area is Exatas made Humanas the active area
C25_Witness ==
  /\ lastEvt.op = "selectArea"
  /\ fb.usuario = Usuario("Exatas", TRUE)
  /\ fb.area = "Humanas"
  /\ AreaOptions(fb) = <<"Exatas", "Humanas">>

\* C28: in every reachable state of either workflow, while the page is
\* loading it holds no question, no selected module and an empty
\* observation; and while a module is selected a question is held.
C28_LoadingHoldsNothing ==
  /\ pg.loading => /\ pg.questao = 0
                   /\ pg.moduloSelecionado = NullModulo
                   /\ pg.observacao = ""
  /\ pg.moduloSelecionado # NullModulo => pg.questao \in Questoes

\* a module is selected on the question of one fetch while another fetch
\* of the page still awaits its response
C28_Witness ==
  /\ ShowsQuestao
  /\ pg.moduloSelecionado # NullModulo
  /\ pg.observacao = "obs"
  /\ FetchesOutstanding # {}

\* C26: whenever no fetch-next request of the mounted page awaits its
\* response and the document is not being replaced, the page shows the outcome of the fetch-next request it issued
\* last: the question of its response, or the empty state with the message
\* of its failure.
C26_ShowsLatestFetch ==
  (authorized /\ ~navPending /\ FetchesOutstanding = {}
     /\ hist.st \in {"ok", "fail"})
    => IF hist.st = "ok"
       THEN ShowsQuestao /\ pg.questao = hist.q
       ELSE ShowsEmpty /\ pg.error = hist.msg

\* C27: whenever no request awaits its response, the document is not being
\* replaced and a question is shown,
\* the request whose response set it carried the area and the discipline
\* that FilterBar has selected.
C27_QuestaoOfSelectedFilter ==
  (net = << >> /\ ~navPending /\ ShowsQuestao /\ hist.st # "off")
    => (hist.area = fb.area /\ hist.disc = fb.disciplinaId)

\* C29 as stated: when every request is answered, a page that is loading
\* is eventually not loading and a page that is saving is eventually not
\* saving (P ~> ~P, written as its equivalent []<>~P).
C29_LeavesLoadingAndSaving ==
  /\ []<>(~pg.loading)
  /\ []<>(~pg.saving)

\* the task that just ran left the page for another view
PageLeft == MountOps(lastEvt)

\* C29 amended: when every request is answered, a page that is loading is
\* eventually not loading or left for another view, and a page that is
\* saving is eventually not saving; the response to a fetch-next of the
\* mounted page, success or failure, leaves the page not loading with a
\* question or an error message, and the response to a submission of the
\* mounted page, success or failure, leaves it not saving
\* (P ~> (~P \/ Q) is written as its equivalent []<>(~P \/ Q)).
C29_NeverStuck ==
  /\ []<>(~pg.loading \/ PageLeft)
  /\ []<>(~pg.saving)
  /\ [][\A i \in 1..MaxInFlight + 1 :
          /\ (Answered(i, "fetchProxima", "fetchProximaDone") /\ net[i].live)
             => (~pg'.loading /\ (pg'.questao # 0 \/ Truthy(pg'.error)))
          /\ \A st \in Statuses :
               (SubmitAnswered(i, st) /\ net[i].live) => ~pg'.saving]_vars

\* a failed submission left the page not saving, with its question
C29_Witness ==
  /\ lastEvt.op \in SubmitDoneOps
  /\ lastEvt.status = StatusError
  /\ ShowsQuestao
  /\ ~pg.saving
=============================================================================
